---- MODULE Spec2Model ----
(***************************************************************************)
(* Face registration / authentication service (FastAPI + Firestore).       *)
(*                                                                         *)
(* The deployment is a set of server processes (Workers).  Each process    *)
(* imports app.services.facial_recognition (which tries to load the        *)
(* TFLite interpreter), runs lifespan (initialize_firebase) and then       *)
(* serves /register, /login and /health.  The processes share one          *)
(* Firestore collection "users" and nothing else.                          *)
(*                                                                         *)
(* A handler is an `async def` whose only await is file.read(): from there *)
(* to its response it runs without yielding its process's event loop, so   *)
(* two requests of one process never interleave between get_all_users and  *)
(* save_user; requests of different processes do.  The handler of          *)
(* /register is therefore split at the one point where another process can *)
(* act: between the duplicate scan and save_user.                          *)
(*                                                                         *)
(* Numbers.  Embeddings are float vectors; the model keeps them in fixed   *)
(* point, Unit standing for 1.0.  The inputs are chosen so that every      *)
(* norm is an exact integer, and a comparison distance <= tolerance is     *)
(* made on the squares.                                                    *)
(*                                                                         *)
(* Specifications.  Spec is the deployment above; FairSpec adds that a     *)
(* handler past its scan runs on to its response; SeqSpec is one healthy   *)
(* process handling its requests one after another; MatcherSpec calls      *)
(* compare_faces on its own.                                               *)
(***************************************************************************)
EXTENDS Integers, Sequences, FiniteSets, TLC

\* Number of requests the deployment handles in one run.
MaxRequests == 2

\* The float 1.0 in fixed point.
Unit == 5

\* settings.CONFIDENCE_THRESHOLD: float = 1.0
CONFIDENCE_THRESHOLD == 1 * Unit

Workers == {"w1", "w2"}
Requests == 1 .. MaxRequests

\* Document ids of the collection, in the order users_ref.stream() yields
\* them (ascending document id).  uuid4 may fall anywhere in that order.
DocIds == 1 .. (MaxRequests + 1)

VARIABLES
    phase,        \* phase[w]: "starting" (lifespan not yet run) or "serving"
    interpreter,  \* interpreter[w]: the module globals of facial_recognition.py
    db,           \* db[w]: the module global of database.py
    store,        \* the Firestore collection "users": document id -> data
    req,          \* req[r]: the request r, its position and its response
    call          \* a direct call of compare_faces: its arguments and result

vars == <<phase, interpreter, db, store, req, call>>

-----------------------------------------------------------------------------
(* Arrays *)

Float32 == "float32"
Float64 == "float64"

\* A numpy vector: its dtype and its components.
ndarray(dtype, v) == [dtype |-> dtype, v |-> v]

RECURSIVE SumSq(_)
SumSq(v) == IF v = <<>> THEN 0 ELSE Head(v) * Head(v) + SumSq(Tail(v))

\* The integer n with n*n <= s < (n+1)*(n+1).
ISqrt(s) == CHOOSE n \in 0 .. s : n * n <= s /\ s < (n + 1) * (n + 1)

\* np.linalg.norm(embedding)
Norm(v) == ISqrt(SumSq(v))

Range(f) == {f[i] : i \in DOMAIN f}

\* numpy's broadcasting rule for two 1-d shapes.
Broadcastable(a, b) == Len(a) = Len(b) \/ Len(a) = 1 \/ Len(b) = 1

\* known_encoding - face_encoding_to_check, for broadcastable operands.
Minus(a, b) ==
    LET n == IF Len(a) >= Len(b) THEN Len(a) ELSE Len(b)
        at(x, i) == IF Len(x) = 1 THEN x[1] ELSE x[i]
    IN  [i \in 1 .. n |-> at(a, i) - at(b, i)]

-----------------------------------------------------------------------------
(* Responses and exceptions *)

\* JSONResponse(status_code, content): content is {"user_id", "message"} or
\* {"error"}; unexpected marks the "Ocurrió un error inesperado: " prefix.
Response(status, user_id, message, error, unexpected) ==
    [status |-> status, user_id |-> user_id, message |-> message,
     error |-> error, unexpected |-> unexpected]

\* The user_id of a response whose content has none.
NoUser == 0

HTTPException(status_code, detail) ==
    [type |-> "HTTPException", status_code |-> status_code, detail |-> detail]

Raise(type, detail) == [type |-> type, status_code |-> 0, detail |-> detail]

\* The except clauses without `except Exception`: what is not an
\* HTTPException leaves the handler, which returns no response.
Caught_HTTPException_only(e) ==
    IF e.type = "HTTPException"
    THEN Response(e.status_code, NoUser, "", e.detail, FALSE)
    ELSE Response(0, NoUser, "", "", FALSE)

\* The two except clauses that close register and login.
Caught(e) ==
    IF e.type = "HTTPException"
    THEN Response(e.status_code, NoUser, "", e.detail, FALSE)
    ELSE Response(500, NoUser, "", e.detail, TRUE)

-----------------------------------------------------------------------------
(* Uploaded files *)

\* An upload, by what the libraries make of it: bytes is "empty" (a
\* zero-length body), "garbage" (bytes that are no encoded image) or "image";
\* faces is the number of regions face_recognition.face_locations finds and
\* raw is the interpreter's output tensor for the crop of the first one.
Upload(bytes, faces, raw) == [bytes |-> bytes, faces |-> faces, raw |-> raw]

Uploads ==
    { Upload("empty", 0, <<0, 0>>),
      Upload("garbage", 0, <<0, 0>>),
      Upload("image", 0, <<0, 0>>),
      Upload("image", 2, <<4, 3>>),
      Upload("image", 1, <<10, 0>>),
      Upload("image", 1, <<4, 3>>),
      Upload("image", 1, <<0, 5>>),
      Upload("image", 1, <<0, 0>>) }

NoUpload == Upload("-", 0, <<>>)

-----------------------------------------------------------------------------
(* app/services/facial_recognition.py *)

\* The module-level try block: what the globals hold after the import.
\* "ctor" : tf.lite.Interpreter(...) raised; interpreter stays None.
\* "alloc": the constructor returned and allocate_tensors() (or one of the
\*          get_*_details calls) raised; interpreter is bound, input_details
\*          and output_details are not.
LoadOutcomes == {"loaded", "ctor", "alloc"}

load_interpreter(outcome) ==
    [interpreter |-> IF outcome = "ctor" THEN "None" ELSE "Interpreter",
     details |-> outcome = "loaded"]

\* Each function returns a value or raises, and names the library
\* operations it ran: "imdecode", "face_locations", "invoke" (the embedding
\* model), "stream" (a store read), "set" (a store write).
Ret(val, calls) == [ok |-> TRUE, val |-> val, calls |-> calls]
Exc(e, calls) == [ok |-> FALSE, exc |-> e, calls |-> calls]

image_to_np_array(image_file) ==
    IF image_file.bytes = "empty"
    THEN \* cv2.imdecode asserts !buf.empty(): cv2.error, not None
         Exc(Raise("cv2.error", "!buf.empty()"), <<"imdecode">>)
    ELSE IF image_file.bytes = "garbage"
    THEN \* img is None
         Exc(HTTPException(400, "Invalid image format."), <<"imdecode">>)
    ELSE Ret(image_file, <<"imdecode">>)

\* Normalización L2: embedding / norm when norm > 0.
Normalize(embedding) ==
    LET norm == Norm(embedding)
    IN  IF norm > 0
        THEN [i \in DOMAIN embedding |-> (embedding[i] * Unit) \div norm]
        ELSE embedding

\* get_face_encodings with the interpreter checked before the faces are
\* counted.
get_face_encodings_model_first(image, tflite) ==
    IF tflite.interpreter = "None"
    THEN Exc(HTTPException(500, "Model not initialized"), <<"face_locations">>)
    ELSE IF image.faces = 0
    THEN Exc(HTTPException(400, "No face detected in the image."),
             <<"face_locations">>)
    ELSE IF image.faces > 1
    THEN Exc(HTTPException(400, "Multiple faces detected. Please upload an image with a single face."),
             <<"face_locations">>)
    ELSE IF ~tflite.details
    THEN Exc(Raise("NameError", "name 'input_details' is not defined"),
             <<"face_locations">>)
    ELSE Ret(<<ndarray(Float32, Normalize(image.raw))>>,
             <<"face_locations", "invoke">>)

get_face_encodings(image, tflite) ==
    IF image.faces = 0
    THEN Exc(HTTPException(400, "No face detected in the image."),
             <<"face_locations">>)
    ELSE IF image.faces > 1
    THEN Exc(HTTPException(400, "Multiple faces detected. Please upload an image with a single face."),
             <<"face_locations">>)
    ELSE IF tflite.interpreter = "None"
    THEN Exc(HTTPException(500, "Model not initialized"), <<"face_locations">>)
    ELSE IF ~tflite.details
    THEN \* interpreter.set_tensor(input_details[0]["index"], ...)
         Exc(Raise("NameError", "name 'input_details' is not defined"),
             <<"face_locations">>)
    ELSE Ret(<<ndarray(Float32, Normalize(image.raw))>>,
             <<"face_locations", "invoke">>)

\* compare_faces with `distance < tolerance`.
RECURSIVE compare_faces_strict(_, _, _)
compare_faces_strict(known_encodings, face_encoding_to_check, tolerance) ==
    IF known_encodings = <<>> THEN "False"
    ELSE LET known_encoding == Head(known_encodings)
         IN  IF ~Broadcastable(known_encoding.v, face_encoding_to_check.v)
             THEN "ValueError"
             ELSE IF /\ tolerance > 0
                     /\ SumSq(Minus(known_encoding.v, face_encoding_to_check.v))
                           < tolerance * tolerance
             THEN "True"
             ELSE compare_faces_strict(Tail(known_encodings),
                                       face_encoding_to_check, tolerance)

\* compare_faces returning from its first iteration whatever the distance.
compare_faces_first_only(known_encodings, face_encoding_to_check, tolerance) ==
    IF known_encodings = <<>> THEN "False"
    ELSE LET known_encoding == Head(known_encodings)
         IN  IF ~Broadcastable(known_encoding.v, face_encoding_to_check.v)
             THEN "ValueError"
             ELSE IF /\ tolerance >= 0
                     /\ SumSq(Minus(known_encoding.v, face_encoding_to_check.v))
                           <= tolerance * tolerance
             THEN "True"
             ELSE "False"

\* compare_faces: "True", "False", or "ValueError" when the subtraction of
\* two arrays that do not broadcast is reached before a match.  The norm is
\* never negative: distance <= tolerance is decided on the squares when
\* tolerance >= 0 and is false when it is negative.
RECURSIVE compare_faces(_, _, _)
compare_faces(known_encodings, face_encoding_to_check, tolerance) ==
    IF known_encodings = <<>> THEN "False"
    ELSE LET known_encoding == Head(known_encodings)
         IN  IF ~Broadcastable(known_encoding.v, face_encoding_to_check.v)
             THEN "ValueError"
             ELSE IF /\ tolerance >= 0
                     /\ SumSq(Minus(known_encoding.v, face_encoding_to_check.v))
                           <= tolerance * tolerance
             THEN "True"
             ELSE compare_faces(Tail(known_encodings), face_encoding_to_check,
                                tolerance)

-----------------------------------------------------------------------------
(* app/services/database.py *)

\* What the calls into firebase_admin do at startup: "ok"; "app" (the
\* credentials or initialize_app raise); "client" (initialize_app returns and
\* firestore.client() raises).
InitOutcomes == {"ok", "app", "client"}

\* initialize_firebase: the global db after the call, given the global
\* before it and whether firebase_admin._apps is non-empty.  Never raises.
initialize_firebase(dbw, apps, outcome) ==
    IF apps
    THEN IF dbw = "None" /\ outcome = "ok" THEN "Client" ELSE dbw
    ELSE IF outcome = "ok" THEN "Client" ELSE dbw

\* What Firestore does with one call: "none" (it serves it); "denied" (it
\* raises PermissionDenied from the call itself); "denied_late" (a read
\* raises PermissionDenied while the stream is iterated); "error" (a write
\* raises another exception, nothing written).
ReadFaults == {"none", "denied", "denied_late"}
WriteFaults == {"none", "denied", "error"}

\* users_ref.stream(): the documents' data in ascending document id.
RECURSIVE Stream(_)
Stream(docs) ==
    IF DOMAIN docs = {} THEN <<>>
    ELSE LET first == CHOOSE i \in DOMAIN docs : \A j \in DOMAIN docs : i <= j
         IN  <<docs[first]>> \o Stream([j \in DOMAIN docs \ {first} |-> docs[j]])

\* The body of the loop without its elif: the old structure is skipped.
adapt_new_structure_only(user_data) ==
    IF "encoding" \in DOMAIN user_data
    THEN <<("face_encodings" :> <<ndarray(Float64, user_data.encoding)>>)
            @@ user_data>>
    ELSE <<>>

\* The body of `for doc in docs` for one document: <<user>> or <<>>.
adapt(user_data) ==
    IF "encoding" \in DOMAIN user_data
    THEN <<("face_encodings" :> <<ndarray(Float64, user_data.encoding)>>)
            @@ user_data>>
    ELSE IF "face_encodings" \in DOMAIN user_data
    THEN <<("face_encodings" :>
               [i \in DOMAIN user_data.face_encodings |->
                   ndarray(Float64, user_data.face_encodings[i])])
            @@ user_data>>
    ELSE <<>>

RECURSIVE adapt_all(_)
adapt_all(docs) ==
    IF docs = <<>> THEN <<>> ELSE adapt(Head(docs)) \o adapt_all(Tail(docs))

\* get_all_users without its `if db is None` guard.
get_all_users_unguarded(dbw, docs, fault) ==
    IF dbw = "None"
    THEN Exc(Raise("AttributeError",
                   "'NoneType' object has no attribute 'collection'"),
             <<>>)
    ELSE IF fault = "denied"
    THEN Exc(Raise("PermissionError",
                   "Missing or insufficient permissions to read from Firestore."),
             <<"stream">>)
    ELSE IF fault = "denied_late"
    THEN Exc(Raise("PermissionDenied", "403 Missing or insufficient permissions."),
             <<"stream">>)
    ELSE Ret(adapt_all(Stream(docs)), <<"stream">>)

get_all_users(dbw, docs, fault) ==
    IF dbw = "None"
    THEN Exc(Raise("ConnectionError",
                   "Firebase not initialized. Call initialize_firebase() first."),
             <<>>)
    ELSE IF fault = "denied"
    THEN Exc(Raise("PermissionError",
                   "Missing or insufficient permissions to read from Firestore."),
             <<"stream">>)
    ELSE IF fault = "denied_late"
    THEN Exc(Raise("PermissionDenied", "403 Missing or insufficient permissions."),
             <<"stream">>)
    ELSE Ret(adapt_all(Stream(docs)), <<"stream">>)

\* float(first_encoding[0]): the first component alone.
encoding_list_first(first_encoding) == <<first_encoding.v[1]>>

\* float(x) for x in first_encoding.tolist(): float32 to Python float, exact.
encoding_list(first_encoding) == first_encoding.v

\* save_user writing the collection instead of one document of it.
save_user_sets_collection(dbw, docs, face_encodings, user_id, fault) ==
    IF dbw = "None"
    THEN Exc(Raise("ConnectionError",
                   "Firebase not initialized. Call initialize_firebase() first."),
             <<>>)
    ELSE IF face_encodings = <<>>
    THEN Exc(Raise("ValueError", "No face encodings provided"), <<>>)
    ELSE IF fault = "denied"
    THEN Exc(Raise("PermissionError",
                   "Missing or insufficient permissions to write to Firestore."),
             <<"set">>)
    ELSE IF fault = "error"
    THEN Exc(Raise("Exception", "set failed"), <<"set">>)
    ELSE Ret([user_id |-> user_id,
              docs |-> user_id :> [user_id |-> user_id,
                                   encoding |-> face_encodings[1].v]],
             <<"set">>)

\* save_user with user_data holding the encoding alone.
save_user_without_user_id(dbw, docs, face_encodings, user_id, fault) ==
    IF dbw = "None"
    THEN Exc(Raise("ConnectionError",
                   "Firebase not initialized. Call initialize_firebase() first."),
             <<>>)
    ELSE IF face_encodings = <<>>
    THEN Exc(Raise("ValueError", "No face encodings provided"), <<>>)
    ELSE IF fault = "denied"
    THEN Exc(Raise("PermissionError",
                   "Missing or insufficient permissions to write to Firestore."),
             <<"set">>)
    ELSE IF fault = "error"
    THEN Exc(Raise("Exception", "set failed"), <<"set">>)
    ELSE Ret([user_id |-> user_id,
              docs |-> (user_id :> [encoding |-> encoding_list(face_encodings[1])])
                       @@ docs],
             <<"set">>)

\* save_user: val is [user_id, docs], the new id and the collection after
\* user_ref.set(user_data).  user_id stands for str(uuid.uuid4()).
save_user(dbw, docs, face_encodings, user_id, fault) ==
    IF dbw = "None"
    THEN Exc(Raise("ConnectionError",
                   "Firebase not initialized. Call initialize_firebase() first."),
             <<>>)
    ELSE IF face_encodings = <<>>
    THEN Exc(Raise("ValueError", "No face encodings provided"), <<>>)
    ELSE IF fault = "denied"
    THEN Exc(Raise("PermissionError",
                   "Missing or insufficient permissions to write to Firestore."),
             <<"set">>)
    ELSE IF fault = "error"
    THEN Exc(Raise("Exception", "set failed"), <<"set">>)
    ELSE Ret([user_id |-> user_id,
              docs |-> (user_id :> [user_id |-> user_id,
                                    encoding |-> encoding_list(face_encodings[1])])
                       @@ docs],
             <<"set">>)

-----------------------------------------------------------------------------
(* app/main.py *)

\* The loop of register leaving after its first iteration.
any_match_first_only(all_users, new_face_encoding) ==
    IF all_users = <<>> THEN "False"
    ELSE compare_faces(Head(all_users).face_encodings, new_face_encoding,
                       CONFIDENCE_THRESHOLD)

\* for user in all_users: if compare_faces(user['face_encodings'], ...): the
\* loop of register.  "True" (a match: 409), "ValueError", or "False".
RECURSIVE any_match(_, _)
any_match(all_users, new_face_encoding) ==
    IF all_users = <<>> THEN "False"
    ELSE LET c == compare_faces(Head(all_users).face_encodings,
                                new_face_encoding, CONFIDENCE_THRESHOLD)
         IN  IF c = "False" THEN any_match(Tail(all_users), new_face_encoding)
             ELSE c

\* The loop of login without its return: the last user that matches.
RECURSIVE last_match(_, _)
last_match(all_users, login_face_encoding) ==
    IF all_users = <<>> THEN <<"none">>
    ELSE LET c == compare_faces(Head(all_users).face_encodings,
                                login_face_encoding, CONFIDENCE_THRESHOLD)
             rest == last_match(Tail(all_users), login_face_encoding)
         IN  IF c = "ValueError" THEN <<"ValueError">>
             ELSE IF rest[1] # "none" THEN rest
             ELSE IF c = "True" THEN <<"user", Head(all_users)>>
             ELSE <<"none">>

\* The loop of login: <<"user", u>> for the first user that matches,
\* <<"ValueError">> or <<"none">>.
RECURSIVE first_match(_, _)
first_match(all_users, login_face_encoding) ==
    IF all_users = <<>> THEN <<"none">>
    ELSE LET c == compare_faces(Head(all_users).face_encodings,
                                login_face_encoding, CONFIDENCE_THRESHOLD)
         IN  IF c = "True" THEN <<"user", Head(all_users)>>
             ELSE IF c = "False"
             THEN first_match(Tail(all_users), login_face_encoding)
             ELSE <<"ValueError">>

NoProbe == ndarray(Float32, <<>>)
NoResponse == Response(0, NoUser, "", "", FALSE)
BroadcastError == Raise("ValueError", "operands could not be broadcast together")

\* What a handler has reached: pc is "done" (resp is its response) or "save"
\* (register is about to call save_user).
Reached(pc, resp, calls, probe, users) ==
    [pc |-> pc, resp |-> resp, calls |-> calls, probe |-> probe, users |-> users]

\* register, lines 58-71 and the except clauses: up to the end of the
\* duplicate scan.
register_scan(file, tflite, dbw, docs, fault) ==
    LET image == image_to_np_array(file)
    IN  IF ~image.ok
        THEN Reached("done", Caught(image.exc), image.calls, NoProbe, <<>>)
        ELSE
    LET encs == get_face_encodings(image.val, tflite)
        c1 == image.calls \o encs.calls
    IN  IF ~encs.ok
        THEN Reached("done", Caught(encs.exc), c1, NoProbe, <<>>)
        ELSE IF encs.val = <<>>
        THEN Reached("done",
                     Caught(HTTPException(400, "No se pudo extraer la codificación facial de la imagen.")),
                     c1, NoProbe, <<>>)
        ELSE
    LET new_face_encoding == encs.val[1]
        all_users == get_all_users(dbw, docs, fault)
        c2 == c1 \o all_users.calls
    IN  IF ~all_users.ok
        THEN Reached("done", Caught(all_users.exc), c2, new_face_encoding, <<>>)
        ELSE
    LET m == any_match(all_users.val, new_face_encoding)
    IN  IF m = "ValueError"
        THEN Reached("done", Caught(BroadcastError), c2, new_face_encoding,
                     all_users.val)
        ELSE IF m = "True"
        THEN Reached("done",
                     Caught(HTTPException(409, "Este rostro ya ha sido registrado.")),
                     c2, new_face_encoding, all_users.val)
        ELSE Reached("save", NoResponse, c2, new_face_encoding, all_users.val)

\* register's save_user leaving the document behind when set() raises after
\* the write.
register_save_partial(new_face_encoding, dbw, docs, user_id, fault) ==
    LET saved == save_user(dbw, docs, <<new_face_encoding>>, user_id, fault)
        written == save_user(dbw, docs, <<new_face_encoding>>, user_id, "none")
    IN  IF ~saved.ok
        THEN Ret([resp |-> Caught(saved.exc),
                  docs |-> IF fault = "error" /\ written.ok
                           THEN written.val.docs ELSE docs],
                 saved.calls)
        ELSE Ret([resp |-> Response(201, saved.val.user_id,
                                    "Usuario registrado exitosamente.", "", FALSE),
                  docs |-> saved.val.docs],
                 saved.calls)

\* register, lines 73-78 and the except clauses: val is the response and the
\* collection after it.
register_save(new_face_encoding, dbw, docs, user_id, fault) ==
    LET saved == save_user(dbw, docs, <<new_face_encoding>>, user_id, fault)
    IN  IF ~saved.ok
        THEN Ret([resp |-> Caught(saved.exc), docs |-> docs], saved.calls)
        ELSE Ret([resp |-> Response(201, saved.val.user_id,
                                    "Usuario registrado exitosamente.", "", FALSE),
                  docs |-> saved.val.docs],
                 saved.calls)

\* login, lines 111-138.
login(file, tflite, dbw, docs, fault) ==
    LET image == image_to_np_array(file)
    IN  IF ~image.ok
        THEN Reached("done", Caught(image.exc), image.calls, NoProbe, <<>>)
        ELSE
    LET encs == get_face_encodings(image.val, tflite)
        c1 == image.calls \o encs.calls
    IN  IF ~encs.ok
        THEN Reached("done", Caught(encs.exc), c1, NoProbe, <<>>)
        ELSE IF encs.val = <<>>
        THEN Reached("done",
                     Caught(HTTPException(400, "No se pudo extraer la codificación facial de la imagen.")),
                     c1, NoProbe, <<>>)
        ELSE
    LET login_face_encoding == encs.val[1]
        all_users == get_all_users(dbw, docs, fault)
        c2 == c1 \o all_users.calls
    IN  IF ~all_users.ok
        THEN Reached("done", Caught(all_users.exc), c2, login_face_encoding, <<>>)
        ELSE
    LET m == first_match(all_users.val, login_face_encoding)
        resp ==
            IF m[1] = "ValueError" THEN Caught(BroadcastError)
            ELSE IF m[1] = "user"
            THEN IF "user_id" \in DOMAIN m[2]
                 THEN Response(200, m[2].user_id, "Login exitoso.", "", FALSE)
                 ELSE Caught(Raise("KeyError", "'user_id'"))
            ELSE Caught(HTTPException(401, "Autenticación fallida. Rostro no reconocido."))
    IN  Reached("done", resp, c2, login_face_encoding, all_users.val)

\* health_check, lines 146-150: {"status": "ok"}, whatever the globals hold.
health_check == Response(200, NoUser, "status: ok", "", FALSE)

-----------------------------------------------------------------------------
(* The deployment *)

\* Collections the service can find at startup: empty, or one document
\* written earlier: by save_user, in the old structure (with and without a
\* user_id field), with neither field, or by a model of another dimension
\* (three components, and one component, which numpy broadcasts).
SeedStores ==
    { <<>>,
      2 :> [user_id |-> 2, encoding |-> <<-4, -3>>],
      2 :> [user_id |-> 2, face_encodings |-> << <<0, -5>>, <<-5, 0>> >>],
      2 :> [face_encodings |-> << <<5, 0>> >>],
      2 :> [user_id |-> 2, name |-> "x"],
      2 :> [user_id |-> 2, encoding |-> <<3, 4, 0>>],
      2 :> [user_id |-> 2, encoding |-> <<10>>] }

\* A request: where its handler is (pc: "new", "save", "done"), what it was
\* given (kind, worker, file), what Firestore did with its last store call
\* (fault), what it computed (probe, users), its response, the library
\* operations it ran (calls), the collection when it began (before) and the
\* requests that had been answered by then (after).
NewRequest ==
    [pc |-> "new", kind |-> "-", worker |-> "-", file |-> NoUpload,
     fault |-> "none", probe |-> NoProbe, users |-> <<>>, resp |-> NoResponse,
     calls |-> <<>>, before |-> <<>>, after |-> {}]

Done(r) == req[r].pc = "done"

\* No direct call of compare_faces is under way.
NoCall == [pc |-> "-", known_encodings |-> <<>>, face_encoding_to_check |-> NoProbe,
           tolerance |-> 0, result |-> "-"]

\* w's event loop is running a handler: register between its scan and
\* save_user.
Busy(w) == \E r \in DOMAIN req : req[r].pc = "save" /\ req[r].worker = w

\* The processes run one image: the import of facial_recognition ends the
\* same way in each.
Init ==
    /\ phase = [w \in Workers |-> "starting"]
    /\ interpreter \in {[w \in Workers |-> load_interpreter(o)] : o \in LoadOutcomes}
    /\ db = [w \in Workers |-> "None"]
    /\ store \in SeedStores
    /\ req = [r \in Requests |-> NewRequest]
    /\ call = NoCall

\* lifespan: initialize_firebase() in a fresh process, which then serves.
Lifespan(w) ==
    /\ phase[w] = "starting"
    /\ \E outcome \in InitOutcomes :
          db' = [db EXCEPT ![w] = initialize_firebase(db[w], FALSE, outcome)]
    /\ phase' = [phase EXCEPT ![w] = "serving"]
    /\ UNCHANGED <<interpreter, store, req, call>>

\* Request r arrives at w once the requests before it have, and its handler
\* runs when w's event loop is free.
Arrives(r, w) ==
    /\ req[r].pc = "new"
    /\ r > 1 => req[r - 1].pc # "new"
    /\ phase[w] = "serving"
    /\ ~Busy(w)

Begin(r, kind, w, file, fault, reached) ==
    [req[r] EXCEPT !.pc = reached.pc, !.kind = kind, !.worker = w,
                   !.file = file,
                   !.fault = IF "stream" \in Range(reached.calls) THEN fault ELSE "none",
                   !.probe = reached.probe, !.users = reached.users,
                   !.resp = reached.resp, !.calls = reached.calls,
                   !.before = Stream(store),
                   !.after = {q \in DOMAIN req : Done(q)}]

\* GET /health
Health(r, w) ==
    /\ Arrives(r, w)
    /\ req' = [req EXCEPT ![r] =
                  Begin(r, "health", w, NoUpload, "none",
                        Reached("done", health_check, <<>>, NoProbe, <<>>))]
    /\ UNCHANGED <<phase, interpreter, db, store, call>>

\* POST /register up to the end of the duplicate scan.
Register(r, w) ==
    /\ Arrives(r, w)
    /\ \E file \in Uploads, fault \in ReadFaults :
          req' = [req EXCEPT ![r] =
                     Begin(r, "register", w, file, fault,
                           register_scan(file, interpreter[w], db[w], store, fault))]
    /\ UNCHANGED <<phase, interpreter, db, store, call>>

\* POST /register from save_user to the response.
RegisterSave(r) ==
    /\ req[r].pc = "save"
    /\ \E user_id \in DocIds \ DOMAIN store, fault \in WriteFaults :
          LET saved == register_save(req[r].probe, db[req[r].worker], store,
                                     user_id, fault)
          IN  /\ store' = saved.val.docs
              /\ req' = [req EXCEPT ![r].pc = "done",
                                    ![r].resp = saved.val.resp,
                                    ![r].fault = fault,
                                    ![r].calls = @ \o saved.calls]
    /\ UNCHANGED <<phase, interpreter, db, call>>

\* POST /login
Login(r, w) ==
    /\ Arrives(r, w)
    /\ \E file \in Uploads, fault \in ReadFaults :
          req' = [req EXCEPT ![r] =
                     Begin(r, "login", w, file, fault,
                           login(file, interpreter[w], db[w], store, fault))]
    /\ UNCHANGED <<phase, interpreter, db, store, call>>

Next ==
    \/ \E w \in Workers : Lifespan(w)
    \/ \E r \in Requests, w \in Workers : Health(r, w)
    \/ \E r \in Requests, w \in Workers : Register(r, w)
    \/ \E r \in Requests : RegisterSave(r)
    \/ \E r \in Requests, w \in Workers : Login(r, w)

Spec == Init /\ [][Next]_vars

\* A handler that has begun runs on: register, past its scan, goes on to
\* save_user and its response without waiting for anything.
FairSpec == Spec /\ \A r \in Requests : WF_vars(RegisterSave(r))

-----------------------------------------------------------------------------
(* One process, healthy, handling its requests one after another *)

\* Number of requests of such a history.
MaxSeqRequests == 3

SeqRequests == 1 .. MaxSeqRequests

\* The process that serves them.
SeqWorker == "w1"

\* The model is loaded, the store handle is a client, lifespan has run.
SeqInit ==
    /\ phase = [w \in Workers |-> "serving"]
    /\ interpreter = [w \in Workers |-> load_interpreter("loaded")]
    /\ db = [w \in Workers |-> initialize_firebase("None", FALSE, "ok")]
    /\ store \in SeedStores
    /\ req = [r \in SeqRequests |-> NewRequest]
    /\ call = NoCall

\* No handler is under way.
Quiet == \A q \in DOMAIN req : req[q].pc \in {"new", "done"}

\* The handlers, begun when no other is under way and served by Firestore.
SeqRegister(r) == Quiet /\ Register(r, SeqWorker) /\ req'[r].fault = "none"
SeqRegisterSave(r) == RegisterSave(r) /\ req'[r].fault = "none"
SeqLogin(r) == Quiet /\ Login(r, SeqWorker) /\ req'[r].fault = "none"

SeqNext ==
    \/ \E r \in SeqRequests : SeqRegister(r)
    \/ \E r \in SeqRequests : SeqRegisterSave(r)
    \/ \E r \in SeqRequests : SeqLogin(r)

SeqSpec == SeqInit /\ [][SeqNext]_vars

-----------------------------------------------------------------------------
(* compare_faces called on its own *)

\* Longest list of known encodings tried.
MaxKnown == 3

\* Vectors to compare: unit vectors, the zero vector, and one of another
\* dimension.
Encodings ==
    { <<5, 0>>, <<4, 3>>, <<0, 5>>, <<-5, 0>>, <<0, 0>>, <<3, 4, 0>> }

\* Tolerances: negative, 0.0, 1.0 and 2.0.
Tolerances == {-1 * Unit, 0, 1 * Unit, 2 * Unit}

KnownLists == UNION {[1 .. n -> Encodings] : n \in 0 .. MaxKnown}

MatcherInit ==
    /\ phase = [w \in Workers |-> "starting"]
    /\ interpreter = [w \in Workers |-> load_interpreter("loaded")]
    /\ db = [w \in Workers |-> "None"]
    /\ store = <<>>
    /\ req = [r \in Requests |-> NewRequest]
    /\ \E known \in KnownLists, check \in Encodings, tolerance \in Tolerances :
          call = [pc |-> "called",
                  known_encodings |-> [i \in DOMAIN known |-> ndarray(Float64, known[i])],
                  face_encoding_to_check |-> ndarray(Float32, check),
                  tolerance |-> tolerance,
                  result |-> "-"]

\* compare_faces(known_encodings, face_encoding_to_check, tolerance) runs.
CompareFaces ==
    /\ call.pc = "called"
    /\ call' = [call EXCEPT !.pc = "returned",
                            !.result = compare_faces(call.known_encodings,
                                                     call.face_encoding_to_check,
                                                     call.tolerance)]
    /\ UNCHANGED <<phase, interpreter, db, store, req>>

MatcherNext == CompareFaces

MatcherSpec == MatcherInit /\ [][MatcherNext]_vars

-----------------------------------------------------------------------------
(* Vocabulary of the properties *)

\* Euclidean distance of two vectors of one dimension against the threshold.
SameDim(a, b) == Len(a) = Len(b)
DistSq(a, b) == SumSq([i \in DOMAIN a |-> a[i] - b[i]])
Within(a, b) ==
    SameDim(a, b) /\ DistSq(a, b) <= CONFIDENCE_THRESHOLD * CONFIDENCE_THRESHOLD
Beyond(a, b) ==
    SameDim(a, b) /\ DistSq(a, b) > CONFIDENCE_THRESHOLD * CONFIDENCE_THRESHOLD

\* The comparison compare_faces makes of stored vector a and probe b: the
\* norm of a - b as numpy computes it, a one-component vector broadcast
\* against every component of the other.
ScanWithin(a, b) ==
    /\ Broadcastable(a, b)
    /\ SumSq(Minus(a, b)) <= CONFIDENCE_THRESHOLD * CONFIDENCE_THRESHOLD
ScanBeyond(a, b) ==
    /\ Broadcastable(a, b)
    /\ SumSq(Minus(a, b)) > CONFIDENCE_THRESHOLD * CONFIDENCE_THRESHOLD

\* The outcomes, read off a response.
Registered(x) == x.status = 201 /\ x.user_id # NoUser
Duplicate(x) == x.status = 409 /\ ~x.unexpected
Authenticated(x) == x.status = 200 /\ x.user_id # NoUser
Unauthenticated(x) == x.status = 401 /\ ~x.unexpected
InvalidImageFormat(x) ==
    x.status = 400 /\ x.error = "Invalid image format." /\ ~x.unexpected
NoFaceDetected(x) ==
    x.status = 400 /\ x.error = "No face detected in the image." /\ ~x.unexpected
MultipleFacesDetected(x) ==
    /\ x.status = 400 /\ ~x.unexpected
    /\ x.error = "Multiple faces detected. Please upload an image with a single face."
ModelUnavailable(x) ==
    x.status = 500 /\ x.error = "Model not initialized" /\ ~x.unexpected
StoreUnavailable(x) ==
    /\ x.status = 500
    /\ x.error = "Firebase not initialized. Call initialize_firebase() first."

\* Request r is a call of register / login that has run.
IsRegister(r) == req[r].kind = "register"
IsLogin(r) == req[r].kind = "login"
\* Its upload decodes and holds one face.
SingleFace(r) == req[r].file.bytes = "image" /\ req[r].file.faces = 1
\* The model and the store were available to it: the interpreter loaded in
\* its process, db is a client there and Firestore served its calls.
ModelAvailable(r) == interpreter[req[r].worker] = load_interpreter("loaded")
StoreAvailable(r) == db[req[r].worker] = "Client" /\ req[r].fault = "none"
\* It ran a library operation.
Ran(r, op) == op \in Range(req[r].calls)

\* q had been answered when r began; r and q overlapped.
Earlier(q, r) == q \in req[r].after
Overlap(q, r) ==
    q # r /\ req[q].pc # "new" /\ req[r].pc # "new" /\ ~Earlier(q, r) /\ ~Earlier(r, q)

-----------------------------------------------------------------------------
(* C1 *)

\* C1: duplicate suppression over sequential calls.  In the step in which a
\* call of register runs, with the model and the store available to it, on a
\* probe within the threshold of the probe of a call of register that had
\* been answered Registered before, the call finishes: it answers Duplicate
\* (409) and the collection is left as it was, whatever else it holds.
C1_DuplicateAfterRegistered ==
    [][\A r \in Requests :
          ( /\ req[r].pc = "new" /\ req'[r].pc # "new"
            /\ req'[r].kind = "register"
            /\ req'[r].file.bytes = "image" /\ req'[r].file.faces = 1
            /\ interpreter[req'[r].worker] = load_interpreter("loaded")
            /\ db[req'[r].worker] = "Client" /\ req'[r].fault = "none"
            /\ \E q \in Requests :
                  /\ req[q].pc = "done" /\ req[q].kind = "register"
                  /\ Registered(req[q].resp)
                  /\ Within(req[q].probe.v, req'[r].probe.v) )
          => ( /\ req'[r].pc = "done"
               /\ Duplicate(req'[r].resp)
               /\ ~("set" \in Range(req'[r].calls))
               /\ store' = store )]_vars

\* A second registration of a registered face was answered Duplicate while
\* the collection held another identity as well, listed before the first.
C1_Witness ==
    \E q, r \in Requests :
        /\ Done(q) /\ Done(r) /\ Earlier(q, r)
        /\ IsRegister(q) /\ Registered(req[q].resp)
        /\ IsRegister(r) /\ Duplicate(req[r].resp)
        /\ req[q].probe # req[r].probe
        /\ Within(req[q].probe.v, req[r].probe.v)
        /\ Len(req[r].users) = 2
        /\ "user_id" \in DOMAIN req[r].users[2]
        /\ req[r].users[2].user_id = req[q].resp.user_id
        /\ \A e \in Range(req[r].users[1].face_encodings) :
              Beyond(e.v, req[r].probe.v)

-----------------------------------------------------------------------------
(* C2 *)

\* The identities get_all_users would return from the collection as it is.
Identities(docs) == adapt_all(Stream(docs))

\* C2 as stated: in the step in which register creates an identity, the probe
\* is farther than the threshold from every embedding (of its dimension) of
\* every identity the collection holds at that moment.
C2_FarFromStoreAtCreation ==
    [][\A r \in Requests :
          (req[r].pc = "save" /\ req'[r].pc = "done" /\ Registered(req'[r].resp))
          => \A i \in DOMAIN Identities(store) :
                \A e \in Range(Identities(store)[i].face_encodings) :
                    ~Within(e.v, req[r].probe.v)]_vars

\* C2, amended: whenever register has passed its duplicate scan (and so
\* whenever it creates an identity), the probe is farther than the threshold,
\* by the comparison compare_faces makes, from every embedding of every
\* identity its get_all_users returned; and two
\* identities created by register are farther apart than the threshold
\* whenever one call had been answered before the other began.
C2_FarFromScannedUsers ==
    /\ \A r \in Requests :
          (IsRegister(r) /\ (req[r].pc = "save" \/ Ran(r, "set")))
          => /\ req[r].users = Identities([i \in DOMAIN req[r].before |-> req[r].before[i]])
             /\ \A i \in DOMAIN req[r].users :
                   \A e \in Range(req[r].users[i].face_encodings) :
                       ScanBeyond(e.v, req[r].probe.v)
    /\ \A q, r \in Requests :
          ( /\ IsRegister(q) /\ Done(q) /\ Registered(req[q].resp)
            /\ IsRegister(r) /\ Done(r) /\ Registered(req[r].resp)
            /\ Earlier(q, r) )
          => Beyond(req[q].probe.v, req[r].probe.v)

\* Two registrations, one after the other, both created an identity, the
\* second after scanning the first and an older identity of two embeddings.
C2_Witness ==
    \E q, r \in Requests :
        /\ IsRegister(q) /\ Done(q) /\ Registered(req[q].resp)
        /\ IsRegister(r) /\ Done(r) /\ Registered(req[r].resp)
        /\ Earlier(q, r)
        /\ Len(req[r].users) = 2
        /\ \E i \in DOMAIN req[r].users : Len(req[r].users[i].face_encodings) = 2

-----------------------------------------------------------------------------
(* C3 *)

\* Both q and r ran their duplicate scan before either called save_user, on
\* probes within the threshold of each other, and Firestore served both
\* writes.
Raced(q, r) ==
    /\ Overlap(q, r)
    /\ IsRegister(q) /\ Done(q) /\ Ran(q, "set") /\ req[q].fault = "none"
    /\ IsRegister(r) /\ Done(r) /\ Ran(r, "set") /\ req[r].fault = "none"
    /\ Within(req[q].probe.v, req[r].probe.v)

\* C3: the race of register.  Two calls of register can overlap between scan
\* and write only in different processes; when two such calls on probes
\* within the threshold of each other have both scanned before either wrote,
\* both are answered Registered, with different ids, and the collection
\* holds both identities, within the threshold of each other.
C3_RaceCreatesTwoIdentities ==
    /\ \A q, r \in Requests :
          (q # r /\ req[q].pc = "save" /\ req[r].pc = "save")
          => req[q].worker # req[r].worker
    /\ \A q, r \in Requests :
          Raced(q, r)
          => /\ Registered(req[q].resp) /\ Registered(req[r].resp)
             /\ req[q].resp.user_id # req[r].resp.user_id
             /\ {req[q].resp.user_id, req[r].resp.user_id} \subseteq DOMAIN store
             /\ store[req[q].resp.user_id].encoding = req[q].probe.v
             /\ store[req[r].resp.user_id].encoding = req[r].probe.v
             /\ Within(store[req[q].resp.user_id].encoding,
                       store[req[r].resp.user_id].encoding)

\* The race happened, on two uploads of one face.
C3_Witness ==
    \E q, r \in Requests :
        /\ Raced(q, r)
        /\ req[q].file = req[r].file
        /\ Cardinality(DOMAIN store) = 2

-----------------------------------------------------------------------------
(* C4 *)

\* A call of login on a decodable single-face upload, answered, with the
\* model and the store available to it.
LoginDecided(r) ==
    IsLogin(r) /\ Done(r) /\ SingleFace(r) /\ ModelAvailable(r) /\ StoreAvailable(r)

\* Identity u has an embedding within the threshold of probe p.
Matches(u, p) == \E e \in Range(u.face_encodings) : Within(e.v, p.v)

Stops(u, k, p) == ~ScanBeyond(u.face_encodings[k].v, p.v)

-----------------------------------------------------------------------------
(* C5 *)

\* C5: register round trip.  A call of register on a decodable single-face
\* upload that began on an empty collection, with the model and the store
\* available, is answered Registered(id); and as long as no other call has
\* written, get_all_users returns exactly one identity, whose user_id is
\* that id and whose embeddings are the one-element list of the probe's
\* values.
C5_RegisterRoundTrip ==
    \A r \in Requests :
        ( /\ IsRegister(r) /\ Done(r) /\ SingleFace(r)
          /\ ModelAvailable(r) /\ StoreAvailable(r)
          /\ req[r].before = <<>>
          /\ \A q \in Requests \ {r} : ~Ran(q, "set") )
        => /\ Registered(req[r].resp)
           /\ LET got == get_all_users(db[req[r].worker], store, "none")
              IN  /\ got.ok
                  /\ Len(got.val) = 1
                  /\ got.val[1].user_id = req[r].resp.user_id
                  /\ Len(got.val[1].face_encodings) = 1
                  /\ got.val[1].face_encodings[1].v = req[r].probe.v

\* The round trip happened, on an upload whose raw embedding was not of unit
\* length.
C5_Witness ==
    \E r \in Requests :
        /\ IsRegister(r) /\ Done(r) /\ Registered(req[r].resp)
        /\ req[r].before = <<>>
        /\ req[r].file.raw # req[r].probe.v
        /\ Identities(store) =
              <<[user_id |-> req[r].resp.user_id, encoding |-> req[r].probe.v,
                 face_encodings |-> <<ndarray(Float64, req[r].probe.v)>>]>>

-----------------------------------------------------------------------------
(* C6 *)

\* Request r is answered in this step.
Answered(r) == req[r].pc # "done" /\ req'[r].pc = "done"

\* The step adds one document to the collection, under a new id, holding
\* that id and the one embedding of r's probe, and changes no other.
AddsIdentityOf(r) ==
    \E id \in DocIds \ DOMAIN store :
        /\ DOMAIN store' = DOMAIN store \cup {id}
        /\ \A j \in DOMAIN store : store'[j] = store[j]
        /\ id = req'[r].resp.user_id
        /\ adapt(store'[id]) =
              <<[user_id |-> id, encoding |-> req[r].probe.v,
                 face_encodings |-> <<ndarray(Float64, req[r].probe.v)>>]>>

\* C6: the store's frame.  A step changes the collection only if it answers
\* a call of register Registered; the step that answers a call of register
\* Registered adds exactly one identity of exactly one embedding and leaves
\* the others as they were; a step that answers login, or register with any
\* other outcome, and a step in which a handler runs without answering,
\* leave the collection as it was.
C6_StoreFrame ==
    [][/\ store' # store
          => \E r \in Requests :
                Answered(r) /\ req'[r].kind = "register" /\ Registered(req'[r].resp)
       /\ \A r \in Requests :
             /\ (Answered(r) /\ req'[r].kind = "register" /\ Registered(req'[r].resp))
                => AddsIdentityOf(r)
             /\ (Answered(r) /\ ~(req'[r].kind = "register" /\ Registered(req'[r].resp)))
                => store' = store
             /\ (req[r].pc = "new" /\ req'[r].pc = "save") => store' = store]_vars

\* register was answered Registered on a collection that held an identity,
\* and another call of register, whose write Firestore refused, was not.
C6_Witness ==
    \E q, r \in Requests :
        /\ IsRegister(r) /\ Done(r) /\ Registered(req[r].resp)
        /\ req[r].before # <<>>
        /\ Cardinality(DOMAIN store) = 2
        /\ IsRegister(q) /\ Done(q) /\ Ran(q, "set") /\ ~Registered(req[q].resp)

-----------------------------------------------------------------------------
(* C7 *)

\* C7: the face-count gate.  A call of register or login on a decodable
\* upload with no face is answered NoFaceDetected, and with more than one
\* face MultipleFacesDetected, both 400; it has run the decoder and the
\* locator and nothing else: not the embedding model, no store read and no
\* store write, whatever the state of the model and of the store handle.
C7_FaceCountGate ==
    \A r \in Requests :
        ((IsRegister(r) \/ IsLogin(r)) /\ req[r].file.bytes = "image"
            /\ req[r].file.faces # 1)
        => /\ Done(r)
           /\ req[r].file.faces = 0 => NoFaceDetected(req[r].resp)
           /\ req[r].file.faces > 1 => MultipleFacesDetected(req[r].resp)
           /\ req[r].resp.status = 400
           /\ req[r].calls = <<"imdecode", "face_locations">>
           /\ req[r].probe = NoProbe

\* Both gates were hit, in a process whose model did not load and whose
\* store handle is None.
C7_Witness ==
    \E q, r \in Requests :
        /\ IsRegister(q) /\ Done(q) /\ NoFaceDetected(req[q].resp)
        /\ IsLogin(r) /\ Done(r) /\ MultipleFacesDetected(req[r].resp)
        /\ req[q].worker = req[r].worker
        /\ interpreter[req[q].worker].interpreter = "None"
        /\ db[req[q].worker] = "None"

-----------------------------------------------------------------------------
(* C8 *)

\* C8: undecodable input.  A call of register or login on a byte buffer
\* that does not decode to an image is answered InvalidImageFormat (400),
\* having run the decoder and nothing after it.
C8_UndecodableIsInvalidImageFormat ==
    \A r \in Requests :
        ((IsRegister(r) \/ IsLogin(r)) /\ req[r].file.bytes # "image")
        => /\ Done(r)
           /\ InvalidImageFormat(req[r].resp)
           /\ req[r].calls = <<"imdecode">>

-----------------------------------------------------------------------------
(* C9 *)

ConnectionErrorOf(x) ==
    ~x.ok /\ x.exc.type = "ConnectionError" /\ x.calls = <<>>

\* C9: store unavailable.  Whatever initialize_firebase did, the process
\* serves once lifespan has run.  In a process that serves with db None:
\* /health answers ok; db stays None; get_all_users and save_user raise
\* ConnectionError without a call into Firestore; and a call of register or
\* login that reaches the store is answered with that error (500), never
\* Registered, Duplicate, Authenticated or Unauthenticated, and has made no
\* store call.
C9_StoreUnavailable ==
    /\ [](\A w \in Workers :
            /\ phase[w] = "starting" => ENABLED Lifespan(w)
            /\ (phase[w] = "serving" /\ db[w] = "None")
               => /\ \A r \in Requests :
                        (req[r].pc = "new" /\ (r > 1 => req[r - 1].pc # "new")
                            /\ ~Busy(w))
                        => ENABLED Health(r, w)
                  /\ ConnectionErrorOf(get_all_users(db[w], store, "none"))
                  /\ \A id \in DocIds, f \in Uploads :
                        ConnectionErrorOf(
                            save_user(db[w], store,
                                      <<ndarray(Float32, Normalize(f.raw))>>,
                                      id, "none"))
                  /\ \A r \in Requests :
                        (req[r].worker = w /\ req[r].pc # "new")
                        => /\ Done(r)
                           /\ req[r].kind = "health"
                              => req[r].resp = Response(200, NoUser, "status: ok", "", FALSE)
                           /\ (req[r].kind # "health" /\ req[r].probe # NoProbe)
                              => /\ StoreUnavailable(req[r].resp)
                                 /\ req[r].resp.unexpected
                                 /\ ~Ran(r, "stream") /\ ~Ran(r, "set"))
    /\ [][\A w \in Workers :
            /\ (phase[w] = "starting" /\ phase'[w] # phase[w]) => phase'[w] = "serving"
            /\ (phase[w] = "serving" /\ db[w] = "None")
               => (phase'[w] = "serving" /\ db'[w] = "None")]_vars

\* In a process whose initialize_firebase failed, /health answered ok and a
\* call of register that reached the store was answered with the error.
C9_Witness ==
    \E q, r \in Requests :
        /\ req[q].kind = "health" /\ Done(q) /\ req[q].resp.status = 200
        /\ IsRegister(r) /\ Done(r) /\ req[r].probe # NoProbe
        /\ req[q].worker = req[r].worker
        /\ db[req[q].worker] = "None"
        /\ StoreUnavailable(req[r].resp)

-----------------------------------------------------------------------------
(* C10 *)

\* C10: deferred model failure.  In a process whose import did not load the
\* model, a call of register or login on a decodable single-face upload is
\* answered ModelUnavailable, without a store read or write.
C10_ModelFailureIsModelUnavailable ==
    \A r \in Requests :
        ((IsRegister(r) \/ IsLogin(r)) /\ SingleFace(r) /\ ~ModelAvailable(r))
        => /\ Done(r)
           /\ ModelUnavailable(req[r].resp)
           /\ ~Ran(r, "stream") /\ ~Ran(r, "set")

-----------------------------------------------------------------------------
(* C11 *)

\* The embeddings of the identities, in the order the scans compare them.
RECURSIVE Flat(_)
Flat(users) ==
    IF users = <<>> THEN <<>>
    ELSE [k \in DOMAIN Head(users).face_encodings |->
             Head(users).face_encodings[k].v] \o Flat(Tail(users))

\* The scan of probe p over the identities us compares an embedding of
\* another dimension than p: every embedding before it is of p's dimension
\* and farther than the threshold.
MismatchCompared(us, p) ==
    \E k \in DOMAIN Flat(us) :
        /\ ~SameDim(Flat(us)[k], p.v)
        /\ \A j \in 1 .. (k - 1) : Beyond(Flat(us)[j], p.v)

\* Firestore refused the last store call of r for access control.
Denied(r) == req[r].fault \in {"denied", "denied_late"}

\* The error kind a call of register or login met, "-" when it met none.
ErrorKind(r) ==
    IF req[r].file.bytes # "image" THEN "InvalidImageFormat"
    ELSE IF req[r].file.faces = 0 THEN "NoFaceDetected"
    ELSE IF req[r].file.faces > 1 THEN "MultipleFacesDetected"
    ELSE IF ~ModelAvailable(r) THEN "ModelUnavailable"
    ELSE IF db[req[r].worker] = "None" THEN "StoreUnavailable"
    ELSE IF Denied(r) THEN "PermissionDenied"
    ELSE IF MismatchCompared(req[r].users, req[r].probe)
    THEN "EmbeddingShapeMismatch"
    ELSE "-"

\* What the client can tell outcomes apart by.
Outcome(x) == <<x.status, x.error>>

\* C11: error mapping is one-to-one.  A call of register or login that met
\* one of the seven error kinds is answered with an error that is not the
\* generic internal error ("Ocurri\'o un error inesperado"), and two calls that
\* met different error kinds are answered with different outcomes.
C11_ErrorMappingOneToOne ==
    \A r \in Requests :
        ((IsRegister(r) \/ IsLogin(r)) /\ Done(r) /\ ErrorKind(r) # "-")
        => /\ req[r].resp.status >= 400
           /\ ~req[r].resp.unexpected
           /\ \A q \in Requests :
                 ( /\ (IsRegister(q) \/ IsLogin(q)) /\ Done(q)
                   /\ ErrorKind(q) \notin {"-", ErrorKind(r)} )
                 => Outcome(req[q].resp) # Outcome(req[r].resp)

-----------------------------------------------------------------------------
(* C12 *)

\* The Euclidean distance of a and b is at most t.
WithinOf(a, b, t) == t >= 0 /\ SameDim(a, b) /\ DistSq(a, b) <= t * t

\* The lists that hold the elements of known in another order.
Reorderings(known) ==
    {[i \in DOMAIN known |-> known[f[i]]] : f \in Permutations(DOMAIN known)}

\* C12: the matcher's result.  Called with known encodings of the probe's
\* dimension, compare_faces returns a boolean: True exactly when some
\* known[i] is at Euclidean distance <= tolerance of the probe (a distance
\* equal to the tolerance matches), so False for an empty list; it returns
\* the same for every reordering of known; compare_faces([a], a, 0) is True
\* and compare_faces([a], b, t) = compare_faces([b], a, t).
C12_MatcherResult ==
    LET known == call.known_encodings
        check == call.face_encoding_to_check
        t == call.tolerance
    IN  (call.pc = "returned" /\ \A i \in DOMAIN known : SameDim(known[i].v, check.v))
        => /\ call.result \in {"True", "False"}
           /\ call.result = "True"
                 <=> \E i \in DOMAIN known : WithinOf(known[i].v, check.v, t)
           /\ known = <<>> => call.result = "False"
           /\ \A other \in Reorderings(known) :
                 compare_faces(other, check, t) = call.result
           /\ (Len(known) = 1 /\ known[1].v = check.v /\ t = 0)
                 => call.result = "True"
           /\ Len(known) = 1
                 => compare_faces(<<ndarray(Float64, check.v)>>,
                                  ndarray(Float32, known[1].v), t) = call.result

\* compare_faces returned True for three known encodings of which only the
\* last is within the tolerance, at a distance equal to it.
C12_Witness ==
    LET known == call.known_encodings
        check == call.face_encoding_to_check
        t == call.tolerance
    IN  /\ call.pc = "returned" /\ call.result = "True"
        /\ Len(known) = 3 /\ t > 0
        /\ \A i \in DOMAIN known : SameDim(known[i].v, check.v)
        /\ ~WithinOf(known[1].v, check.v, t)
        /\ ~WithinOf(known[2].v, check.v, t)
        /\ DistSq(known[3].v, check.v) = t * t

-----------------------------------------------------------------------------
(* C13 *)

\* C13: a dimension mismatch is an error, not a no-match.  A call of register
\* or login whose scan compares a stored embedding of another dimension than
\* the probe ends there with an error outcome: it is answered, with a 5xx
\* status, neither Registered nor Unauthenticated, and has made no write.
C13_MismatchIsError ==
    \A r \in Requests :
        ( /\ (IsRegister(r) \/ IsLogin(r)) /\ req[r].pc # "new"
          /\ MismatchCompared(req[r].users, req[r].probe) )
        => /\ Done(r)
           /\ req[r].resp.status >= 500
           /\ ~Registered(req[r].resp) /\ ~Unauthenticated(req[r].resp)
           /\ ~Ran(r, "set")

-----------------------------------------------------------------------------
(* C14 *)

\* A record of one of the two accepted shapes.
Accepted(user_data) ==
    "encoding" \in DOMAIN user_data \/ "face_encodings" \in DOMAIN user_data

\* The vectors a record holds: its encoding alone, or its face_encodings.
Embeddings(user_data) ==
    IF "encoding" \in DOMAIN user_data THEN <<user_data.encoding>>
    ELSE user_data.face_encodings

\* Identity u is record d adapted: d's other fields as they are, and as
\* face_encodings the vectors of d, in order.
Adapted(u, d) ==
    /\ DOMAIN u = DOMAIN d \cup {"face_encodings"}
    /\ \A field \in DOMAIN d \ {"face_encodings"} : u[field] = d[field]
    /\ [k \in DOMAIN u.face_encodings |-> u.face_encodings[k].v] = Embeddings(d)

\* users is what the records, in their order, adapt to: one identity for
\* each accepted record, in the records' order, and nothing for the others.
AdaptationOf(users, records) ==
    LET accepted == {i \in DOMAIN records : Accepted(records[i])}
    IN  /\ Len(users) = Cardinality(accepted)
        /\ \E f \in [DOMAIN users -> accepted] :
              /\ \A j, k \in DOMAIN users : j < k => f[j] < f[k]
              /\ \A k \in DOMAIN users : Adapted(users[k], records[f[k]])

\* get_all_users returned to r: Firestore served its read.
Scanned(r) == Ran(r, "stream") /\ (Ran(r, "set") \/ req[r].fault = "none")

\* C14: legacy record adaptation.  Whenever Firestore serves the read,
\* get_all_users returns, in the enumeration order of the collection, one
\* identity for every record with an encoding field (its embeddings the
\* one-element list of that vector) or, without one, with a face_encodings
\* field (its embeddings that list, in order), and none for a record with
\* neither; it does not fail on records of these kinds.
C14_LegacyAdaptation ==
    /\ \A r \in Requests :
          ((IsRegister(r) \/ IsLogin(r)) /\ Scanned(r))
          => AdaptationOf(req[r].users, req[r].before)
    /\ \A w \in Workers :
          db[w] = "Client"
          => LET got == get_all_users(db[w], store, "none")
             IN  got.ok /\ AdaptationOf(got.val, Stream(store))

\* A scan read two records, the first written by register and the second
\* with neither field, and returned the one identity.
C14_Witness ==
    \E r \in Requests :
        /\ IsLogin(r) /\ Done(r) /\ Scanned(r)
        /\ Len(req[r].before) = 2 /\ Len(req[r].users) = 1
        /\ "encoding" \in DOMAIN req[r].before[1]
        /\ ~Accepted(req[r].before[2])

-----------------------------------------------------------------------------
(* C15 *)

\* The status codes of the responses register and login return.
Outcomes == {200, 201, 400, 401, 409, 500}

\* C15: a single outcome per request.  Every call of register or login that
\* has begun is answered (a call past its scan goes on to its response), with
\* one response of the handler's own: a status among 200, 201, 400, 401, 409
\* and 500, never an exception that leaves the handler; once answered, the
\* response never changes; and a step that answers a call with a failure
\* changes nothing else: not the model, the store handle or the collection,
\* and no other request.
C15_SingleOutcome ==
    /\ [](\A r \in Requests :
            (IsRegister(r) \/ IsLogin(r))
            => /\ Done(r) => req[r].resp.status \in Outcomes
               /\ ~Done(r) => (req[r].pc = "save" /\ req[r].resp = NoResponse))
    /\ [][\A r \in Requests :
            /\ Done(r) => req'[r] = req[r]
            /\ (Answered(r) /\ req'[r].resp.status >= 400)
               => /\ <<phase, interpreter, db, store>>' = <<phase, interpreter, db, store>>
                  /\ \A q \in Requests \ {r} : req'[q] = req[q]]_vars
    /\ \A r \in Requests : (req[r].pc = "save") ~> Done(r)

\* A call of register failed with an exception of Firestore, answered with
\* the generic 500, and a later call in the same process was answered
\* Registered.
C15_Witness ==
    \E q, r \in Requests :
        /\ IsRegister(q) /\ Done(q) /\ Ran(q, "set")
        /\ req[q].resp.status = 500 /\ req[q].resp.unexpected
        /\ IsRegister(r) /\ Done(r) /\ Earlier(q, r)
        /\ req[r].worker = req[q].worker
        /\ Registered(req[r].resp)

-----------------------------------------------------------------------------
(* C16 *)

\* Every embedding r's scan read has the dimension of r's probe.
ModelDimension(r) ==
    \A k \in DOMAIN Flat(req[r].users) : SameDim(Flat(req[r].users)[k], req[r].probe.v)

\* C16: register-then-login consistency.  In a history of requests handled
\* one after another with the model and the store available, once a call of
\* register with probe e has been answered Registered(id), every later call
\* of login with the same probe, reading stored embeddings of the model's
\* dimension only, is answered Authenticated with that id, whatever calls
\* of register and login came before and in between.
C16_RegisterThenLogin ==
    \A q, r \in DOMAIN req :
        ( /\ IsRegister(q) /\ Done(q) /\ Registered(req[q].resp)
          /\ IsLogin(r) /\ Done(r) /\ Earlier(q, r)
          /\ req[r].probe = req[q].probe
          /\ ModelDimension(r) )
        => /\ Authenticated(req[r].resp)
           /\ req[r].resp.user_id = req[q].resp.user_id

\* register created an identity, another call of register then created a
\* second one that the store lists first, and a login with the first probe
\* was answered with the first id.
C16_Witness ==
    \E q, p, r \in DOMAIN req :
        /\ IsRegister(q) /\ Done(q) /\ Registered(req[q].resp)
        /\ IsRegister(p) /\ Done(p) /\ Registered(req[p].resp)
        /\ IsLogin(r) /\ Done(r)
        /\ Earlier(q, p) /\ Earlier(p, r)
        /\ req[p].resp.user_id < req[q].resp.user_id
        /\ req[r].probe = req[q].probe
        /\ Authenticated(req[r].resp)
        /\ req[r].resp.user_id = req[q].resp.user_id

-----------------------------------------------------------------------------
(* C17 *)

\* C17: a matched identity is always nameable.  Every identity that
\* get_all_users returned to a call of login carries a user_id; and when the
\* scan of login finds an identity with an embedding within the threshold of
\* the probe, the call is answered Authenticated with the user_id of the
\* first such identity, not with an internal error.
C17_MatchedIdentityNameable ==
    \A r \in Requests :
        (IsLogin(r) /\ Done(r) /\ Scanned(r))
        => LET us == req[r].users
               hits == {i \in DOMAIN us : Matches(us[i], req[r].probe)}
           IN  /\ \A i \in DOMAIN us : "user_id" \in DOMAIN us[i]
               /\ (hits # {} /\ ~MismatchCompared(us, req[r].probe))
                  => LET first == CHOOSE i \in hits : \A j \in hits : i <= j
                     IN  /\ Authenticated(req[r].resp)
                         /\ req[r].resp.user_id = us[first].user_id

====
